---- MODULE Spec2Model ----
(***************************************************************************)
(* Model of mdp_rrd_monitor/main.py: the target parser Target.of, the      *)
(* fetcher get_value, the formatter format and the round-robin loop of     *)
(* main.                                                                   *)
(*                                                                         *)
(* Representation.  A Python str is a sequence of one-character strings,   *)
(* so that len(), indexing, split() and concatenation are computed.  A     *)
(* float is a fixed-point integer counting hundredths (12.34 is 1234); the *)
(* value denoted is the IEEE double nearest to that decimal, which is what *)
(* float("12.34") yields.  Time is counted in whole seconds.               *)
(***************************************************************************)
EXTENDS Integers, Sequences, FiniteSets

(***************************************************************************)
(* Bounds of the model.                                                    *)
(***************************************************************************)
\* sample timestamps reported by the data source are 0..MaxSampleTime
MaxSampleTime == 1
\* the clock takes values within Slack seconds of each threshold crossing
Slack == 1
\* format is applied to every fixed-point value within FormatWindow
\* hundredths of each of its tier boundaries
FormatWindow == 30
\* Target.of is applied to every string of at most MaxArgLen characters
MaxArgLen == 5

(***************************************************************************)
(* Program constants.                                                      *)
(***************************************************************************)
\* argparse default of --update-interval
DefaultUpdateInterval == 300
\* argparse default of --error-threashold
DefaultErrorThreashold == 1800
\* the exit status of exit(1) when the device is absent
ExitDeviceAbsent == 1
\* the field width of "%5.1f" and "%5d"
FieldWidth == 5

\* Python values are records, so that None, a State, a Target and a raised
\* exception can be compared with one another
None == [kind |-> "None"]

Raise(e) == [kind |-> "raise", exc |-> e]

Raised(x) == x.kind = "raise"

\* pathlib.Path(p)
Path(p) == [kind |-> "Path", path |-> p]

(***************************************************************************)
(* str helpers                                                             *)
(***************************************************************************)
Digits == <<"0", "1", "2", "3", "4", "5", "6", "7", "8", "9">>

IsDigit(c) == \E d \in 1..10 : Digits[d] = c

DigitValue(c) == (CHOOSE d \in 1..10 : Digits[d] = c) - 1

\* str(n) for a natural n
Decimal(n) ==
    LET dec[m \in 0..n] == IF m < 10 THEN <<Digits[m + 1]>>
                           ELSE dec[m \div 10] \o <<Digits[(m % 10) + 1]>>
    IN dec[n]

\* s.rjust(w): the minimum field width of a % conversion pads on the left
RECURSIVE PadLeft(_, _)
PadLeft(txt, w) == IF Len(txt) >= w THEN txt ELSE PadLeft(<<" ">> \o txt, w)

\* c in txt
Contains(txt, c) == \E k \in 1..Len(txt) : txt[k] = c

\* txt.find(c) as a 1-based index, 0 when c does not occur
FirstIndex(txt, c) == IF Contains(txt, c)
                    THEN CHOOSE k \in 1..Len(txt) :
                           txt[k] = c /\ \A j \in 1..(k - 1) : txt[j] # c
                    ELSE 0

\* txt.split(sep, maxsplit)
\* (from[b, m] splits txt[b..] at most m times)
Split(txt, sep, maxsplit) ==
    LET from[b \in 1..(Len(txt) + 1), m \in 0..maxsplit] ==
            LET rest == SubSeq(txt, b, Len(txt))
                k == FirstIndex(rest, sep)
            IN IF m = 0 \/ k = 0 THEN <<rest>>
               ELSE <<SubSeq(rest, 1, k - 1)>> \o from[b + k, m - 1]
    IN from[1, maxsplit]

\* txt.splitlines() for text whose only line boundary is "\n"
\* (from[b] are the lines of txt[b..]; a final "\n" ends the last line and
\* starts no empty one)
SplitLines(txt) ==
    LET from[b \in 1..(Len(txt) + 1)] ==
            LET rest == SubSeq(txt, b, Len(txt))
                k == FirstIndex(rest, "\n")
            IN IF rest = <<>> THEN <<>>
               ELSE IF k = 0 THEN <<rest>>
               ELSE <<SubSeq(rest, 1, k - 1)>> \o from[b + k]
    IN from[1]

\* txt.strip() for text whose only whitespace is " "
Strip(txt) ==
    LET inked == {k \in 1..Len(txt) : txt[k] # " "} IN
    IF inked = {} THEN <<>>
    ELSE SubSeq(txt, CHOOSE a \in inked : \A k \in inked : a <= k,
                   CHOOSE b \in inked : \A k \in inked : k <= b)

AllDigits(txt) == \A k \in 1..Len(txt) : IsDigit(txt[k])

\* the natural number written by a string of digits ("" is 0)
DigitsValue(txt) ==
    LET val[k \in 0..Len(txt)] == IF k = 0 THEN 0
                                ELSE 10 * val[k - 1] + DigitValue(txt[k])
    IN val[Len(txt)]

HasSign(txt) == txt # <<>> /\ Head(txt) \in {"-", "+"}

Unsigned(txt) == IF HasSign(txt) THEN Tail(txt) ELSE txt

Signed(txt, n) == IF txt # <<>> /\ Head(txt) = "-" THEN 0 - n ELSE n

(***************************************************************************)
(* int(t): surrounding whitespace, an optional sign, one or more digits.   *)
(***************************************************************************)
IntOk(t) == LET u == Unsigned(Strip(t)) IN u # <<>> /\ AllDigits(u)

IntValue(t) == Signed(Strip(t), DigitsValue(Unsigned(Strip(t))))

(***************************************************************************)
(* float(v) over the alphabet of the model (digits, sign, point, space):   *)
(* surrounding whitespace, an optional sign, digits with an optional point *)
(* and at least one digit.  The result counts hundredths; inputs carry at  *)
(* most two fractional digits.                                             *)
(***************************************************************************)
IntPart(u) == LET k == FirstIndex(u, ".") IN
              IF k = 0 THEN u ELSE SubSeq(u, 1, k - 1)

FracPart(u) == LET k == FirstIndex(u, ".") IN
               IF k = 0 THEN <<>> ELSE SubSeq(u, k + 1, Len(u))

FloatOk(v) == LET u == Unsigned(Strip(v)) IN
              /\ AllDigits(IntPart(u))
              /\ AllDigits(FracPart(u))
              /\ Len(IntPart(u)) + Len(FracPart(u)) > 0

FloatValue(v) ==
    LET u == Unsigned(Strip(v))
        f == FracPart(u)
        h == IF Len(f) = 0 THEN 0
             ELSE IF Len(f) = 1 THEN 10 * DigitsValue(f)
             ELSE DigitsValue(f)
    IN Signed(Strip(v), 100 * DigitsValue(IntPart(u)) + h)

(***************************************************************************)
(* format (main.py 78-84)                                                  *)
(***************************************************************************)
Abs(v) == IF v < 0 THEN 0 - v ELSE v

RECURSIVE BitLen(_)
BitLen(q) == IF q = 0 THEN 0 ELSE 1 + BitLen(q \div 2)

\* long division of r/100 in base 2: the remainder after n more bits and the
\* last bit produced
RECURSIVE FracRem(_, _, _)
FracRem(r, n, last) ==
    IF n = 0 THEN <<r, last>>
    ELSE FracRem((2 * r) % 100, n - 1, IF 2 * r >= 100 THEN 1 ELSE 0)

RECURSIVE SkipZeros(_)
SkipZeros(r) == IF 2 * r >= 100 THEN FracRem((2 * r) % 100, 52, 1)
                ELSE SkipZeros(2 * r)

\* The sign of double(mag/100) - mag/100 for mag > 0: the double keeps 53
\* significant bits, rounded to nearest, ties to even.
ReprErrSign(mag) ==
    LET q == mag \div 100
        r == mag % 100
        e == IF q > 0 THEN FracRem(r, 53 - BitLen(q), q % 2) ELSE SkipZeros(r)
    IN IF r = 0 \/ e[1] = 0 THEN 0
       ELSE IF 2 * e[1] > 100 THEN 1
       ELSE IF 2 * e[1] < 100 THEN -1
       ELSE IF e[2] = 1 THEN 1 ELSE -1

\* The tenths printed by "%.1f" for the double nearest mag/100: the exact
\* binary value is rounded to nearest, ties to even.
RoundTenths(mag) ==
    LET t == mag \div 10
        d == mag % 10
        e == ReprErrSign(mag)
    IN IF d > 5 THEN t + 1
       ELSE IF d < 5 THEN t
       ELSE IF e > 0 THEN t + 1
       ELSE IF e < 0 THEN t
       ELSE IF t % 2 = 1 THEN t + 1 ELSE t

\* "%5.1f" % v
FormatF(v) ==
    LET t == RoundTenths(Abs(v)) IN
    PadLeft((IF v < 0 THEN <<"-">> ELSE <<>>)
              \o Decimal(t \div 10) \o <<".">> \o <<Digits[(t % 10) + 1]>>,
            FieldWidth)

\* (a variant that rounds to the nearest integer)
FormatDRound(v) ==
    LET n == (Abs(v) + 50) \div 100 IN
    PadLeft((IF v < 0 /\ n > 0 THEN <<"-">> ELSE <<>>) \o Decimal(n), FieldWidth)

\* "%5d" % v: the float is truncated towards zero
FormatD(v) ==
    LET n == Abs(v) \div 100 IN
    PadLeft((IF v < 0 /\ n > 0 THEN <<"-">> ELSE <<>>) \o Decimal(n), FieldWidth)

\* (a variant that tests the leading character only)
OverflowedNoLen(r) == r[1] # " " /\ r[1] # "-"

\* the test of lines 80 and 82
Overflowed(r) == 5 < Len(r) \/ (r[1] # " " /\ r[1] # "-")

High == <<" ", "H", "i", "g", "h">>
Low == <<" ", "L", "o", "w", " ">>

format(v) ==
    IF Overflowed(FormatF(v))
    THEN IF Overflowed(FormatD(v))
         THEN (IF 0 < v THEN High ELSE Low)
         ELSE FormatD(v)
    ELSE FormatF(v)

(***************************************************************************)
(* Target.of (main.py 19-38)                                               *)
(***************************************************************************)
Target(y, p, f) == [kind |-> "Target", symbol |-> y, file |-> p, scale |-> f]

\* the scale 1.0 of a target given without one
DefaultScale == FloatValue(<<"1", ".", "0">>)

\* (a variant that checks the symbol of a two-field target only)
TargetOfUnchecked(txt) ==
    LET a == Split(txt, ",", 2) IN
    IF Len(a) = 2
    THEN IF Len(a[1]) # 1 THEN Raise("ValueError")
         ELSE Target(a[1], Path(a[2]), DefaultScale)
    ELSE IF Len(a) = 3
    THEN IF ~FloatOk(a[3]) THEN Raise("ValueError")
         ELSE Target(a[1], Path(a[2]), FloatValue(a[3]))
    ELSE Raise("ValueError")

TargetOf(txt) ==
    LET a == Split(txt, ",", 2) IN
    IF Len(a) = 2
    THEN IF Len(a[1]) # 1 THEN Raise("ValueError")
         ELSE Target(a[1], Path(a[2]), DefaultScale)
    ELSE IF Len(a) = 3
    THEN IF Len(a[1]) # 1 THEN Raise("ValueError")
         ELSE IF ~FloatOk(a[3]) THEN Raise("ValueError")
         ELSE Target(a[1], Path(a[2]), FloatValue(a[3]))
    ELSE Raise("ValueError")

(***************************************************************************)
(* get_value (main.py 41-62)                                               *)
(***************************************************************************)
State(at, value) == [kind |-> "State", at |-> at, value |-> value]

\* the command line handed to subprocess.run
Cmdline(target, rrdcache) == [file |-> target.file, daemon |-> rrdcache]

\* subprocess.CompletedProcess
Completed(rc, out) == [returncode |-> rc, stdout |-> out]

get_value_first_line(r) ==
    IF r.returncode # 0 THEN None
    ELSE LET lines == SplitLines(r.stdout) IN
         IF lines = <<>> THEN Raise("IndexError")
         ELSE LET a == lines[1]
                  k == FirstIndex(a, ":")
                  t == SubSeq(a, 1, k - 1)
                  v == SubSeq(a, k + 1, Len(a))
              IN IF k = 0 THEN None
                 ELSE IF v = <<"U">> THEN None
                 ELSE IF ~IntOk(t) THEN Raise("ValueError")
                 ELSE IF ~FloatOk(v) THEN Raise("ValueError")
                 ELSE State(IntValue(t), FloatValue(v))

\* lines 52-62, given the completed process r of line 51
get_value(r) ==
    IF r.returncode # 0 THEN None
    ELSE LET lines == SplitLines(r.stdout) IN
         IF lines = <<>> THEN Raise("IndexError")
         ELSE LET a == lines[Len(lines)]
                  k == FirstIndex(a, ":")
                  t == SubSeq(a, 1, k - 1)
                  v == SubSeq(a, k + 1, Len(a))
              IN IF k = 0 THEN None
                 ELSE IF v = <<"U">> THEN None
                 ELSE IF ~IntOk(t) THEN Raise("ValueError")
                 ELSE IF ~FloatOk(v) THEN Raise("ValueError")
                 ELSE State(IntValue(t), FloatValue(v))

(***************************************************************************)
(* main (main.py 87-146)                                                   *)
(***************************************************************************)
VARIABLES
    pc,           \* the position of the process in main
    connected,    \* what microdotphat.is_connected() reports
    args,         \* the parsed command line
    exitcode,     \* the exit status of the process, None while it runs
    brightness,   \* TRUE once set_brightness has been called
    states,       \* states[i + 1] is the State of target i, or None
    i,            \* the index of the target of the current cycle
    now,          \* datetime.now() as sampled by the current cycle
    s,            \* the local s of the current cycle
    ns,           \* the local ns: what get_value returned to the current cycle
    cmdline,      \* the command line of the subprocess of the current cycle
    label,        \* the str handed to scroll_to by the current cycle
    written,      \* TRUE once something has been written to the display
    input,        \* the argument of a function applied on its own
    result,       \* the value it returned, None before the call
    before,       \* history: states[i] as line 130 read it in the current cycle
    succeeded     \* history: the indexes for which get_value returned a State

vars == <<pc, connected, args, exitcode, brightness, states, i, now, s, ns,
          cmdline, label, written, input, result, before, succeeded>>

\* command lines: the positional target arguments
Arg1 == <<"a", ",", "p">>
Arg2 == <<"b", ",", "q", ",", "2">>
Arg3 == <<"c", ",", "r">>

Argvs == {<<Arg1>>, <<Arg1, Arg2>>, <<Arg1, Arg2, Arg3>>}

\* the thresholds are any two of the defaults: the code does not relate them
Intervals == {DefaultUpdateInterval, DefaultErrorThreashold}

\* argparse applies Target.of to every positional argument
ParseArgs(argv, ui, et, cache) ==
    [update_interval |-> ui, error_threashold |-> et, rrdcache |-> cache,
     target |-> [k \in 1..Len(argv) |-> TargetOf(argv[k])]]

\* the command lines the model starts from: the defaults with one to three
\* targets, and every pair of thresholds with two targets and a cache socket
CommandLines ==
    {ParseArgs(argv, DefaultUpdateInterval, DefaultErrorThreashold, None) :
        argv \in Argvs}
    \cup {ParseArgs(<<Arg1, Arg2>>, ui, et, Path(<<"s">>)) :
            ui \in Intervals, et \in Intervals}

\* the instants datetime.now() is sampled at: the sample timestamps and the
\* instants around each threshold crossing
Times == (0..MaxSampleTime)
         \cup UNION {(d - Slack)..(d + MaxSampleTime + Slack) : d \in Intervals}

targets == args.target

N == Len(targets)

tFirst == targets[1]

t == targets[i + 1]

\* what the data source prints for a sample
SampleTimeStrs == {Decimal(k) : k \in 0..MaxSampleTime}

RawValueStrs == {<<"1", "2", ".", "3", "4">>, <<"-", "1", "2", "3", ".", "4">>,
                 <<"1", "2", "3", "4", "5", "6">>, <<"-", "9", "9", "9", "9", "9">>}

\* the last line of the output of the collaborator: "t:v", "t: v" as rrdtool
\* prints it, the unknown value U in both forms, and malformed lines
LastLines ==
    {ts \o <<":">> \o v : ts \in SampleTimeStrs, v \in RawValueStrs}
    \cup {ts \o <<":", " ">> \o v : ts \in SampleTimeStrs, v \in RawValueStrs}
    \cup {<<"0", ":", "U">>, <<"0", ":", " ", "U">>, <<"0", ":", "x">>,
          <<"0", ":">>, <<"x", ":", "1">>, <<":", "1">>, <<"0", ".", "5", ":", "1">>,
          <<"0", ":", "1", ":", "2">>, <<"0", ":", "1", " ", "2">>,
          <<"d">>, <<>>}

Header == <<" ", "d", "\n", "\n">>

Stdouts == {<<>>} \cup {Header \o l \o <<"\n">> : l \in LastLines} \cup (LastLines \ {<<>>})

\* every reply of the collaborator
Replies == {Completed(rc, out) : rc \in {0, 1}, out \in Stdouts}

\* what get_value makes of them
GetValueResults == {get_value(r) : r \in Replies}

Init ==
    /\ pc = "start"
    /\ connected \in BOOLEAN
    /\ args \in CommandLines
    /\ exitcode = None
    /\ brightness = FALSE
    /\ states = <<>>
    /\ i = 0
    /\ now = 0
    /\ s = None
    /\ ns = None
    /\ cmdline = None
    /\ label = <<>>
    /\ written = FALSE
    /\ input = <<>>
    /\ result = None
    /\ before = None
    /\ succeeded = {}

\* lines 109-111
DeviceAbsent ==
    /\ pc = "start"
    /\ ~connected
    /\ pc' = "exit"
    /\ exitcode' = ExitDeviceAbsent
    /\ UNCHANGED <<before, succeeded, connected, args, brightness, states, i,
                   now, s, ns, cmdline, label, written, input, result>>

\* lines 113-127: the device is present; the first cycle is for index 0
Setup ==
    /\ pc = "start"
    /\ connected
    /\ states' = [k \in 1..N |-> None]
    /\ brightness' = TRUE
    /\ i' = 0
    /\ pc' = "select"
    /\ UNCHANGED <<before, succeeded, connected, args, exitcode, now, s, ns,
                   cmdline, label, written, input, result>>

\* (a variant that refreshes at the interval, not after it)
NeedsRefreshInclusive(st, n) == st = None \/ args.update_interval <= n - st.at

\* (a variant that fetches for an empty slot only)
NeedsRefreshEmptyOnly(st, n) == st = None

\* the test of line 133
NeedsRefresh(st, n) == st = None \/ args.update_interval < n - st.at

\* (a variant that is in error at the threshold, not after it)
InErrorInclusive(st, n) == st = None \/ args.error_threashold <= n - st.at

\* (a variant that compares the age with the update interval)
InErrorStale(st, n) == st = None \/ args.update_interval < n - st.at

\* the test of line 138
InError(st, n) == st = None \/ args.error_threashold < n - st.at

\* lines 128-134 and 47-51: sample the clock, read the slot and, when a
\* refresh is due, start the subprocess of get_value
Select ==
    /\ pc = "select"
    /\ \E n \in Times :
         /\ n >= now
         /\ now' = n
         /\ s' = states[i + 1]
         /\ before' = states[i + 1]
         /\ ns' = None
         /\ label' = <<>>
         /\ IF NeedsRefresh(states[i + 1], n)
            THEN pc' = "get_value" /\ cmdline' = Cmdline(t, args.rrdcache)
            ELSE pc' = "classify" /\ cmdline' = None
    /\ UNCHANGED <<succeeded, connected, args, exitcode, brightness, states,
                   i, written, input, result>>

\* (a variant that stores whatever get_value returned)
RefreshedAlways(st, v) == v

RefreshedIfEmpty(st, v) == IF st = None THEN v ELSE st

RefreshedIfNewer(st, v) ==
    IF v # None /\ (st = None \/ v.at >= st.at) THEN v ELSE st

\* lines 135-136: states[i] = s = ns unless ns is None
Refreshed(st, v) == IF v # None THEN v ELSE st

\* lines 51-62 and 134-136: the subprocess completes and get_value returns
GetValueReturns ==
    /\ pc = "get_value"
    /\ \E v \in GetValueResults :
         /\ ~Raised(v)
         /\ ns' = v
         /\ s' = Refreshed(s, v)
         /\ states' = [states EXCEPT ![i + 1] = Refreshed(states[i + 1], v)]
         /\ succeeded' = IF v # None THEN succeeded \cup {i} ELSE succeeded
    /\ pc' = "classify"
    /\ UNCHANGED <<before, connected, args, exitcode, brightness, i, now,
                   cmdline, label, written, input, result>>

\* lines 51-61: the subprocess completes and get_value raises; nothing
\* catches the exception and the interpreter terminates with status 1
GetValueRaises ==
    /\ pc = "get_value"
    /\ \E v \in GetValueResults : Raised(v)
    /\ pc' = "crashed"
    /\ exitcode' = 1
    /\ UNCHANGED <<before, succeeded, connected, args, brightness, states, i,
                   now, s, ns, cmdline, label, written, input, result>>

\* s.value * t.scale
Scaled(value, scale) == value * (scale \div 100) + (value * (scale % 100)) \div 100

ERR == <<" ", "E", "R", "R", " ">>

\* (a variant that renders while the subprocess is still running)
RenderWithoutWaiting ==
    /\ pc \in {"classify", "get_value"}
    /\ label' = IF InError(s, now)
                THEN t.symbol \o ERR
                ELSE t.symbol \o format(Scaled(s.value, t.scale))
    /\ written' = TRUE
    /\ pc' = "pace"
    /\ UNCHANGED <<before, succeeded, connected, args, exitcode, brightness,
                   states, i, now, s, ns, cmdline, input, result>>

\* lines 138-144: classify and hand the label to scroll_to
Render ==
    /\ pc = "classify"
    /\ label' = IF InError(s, now)
                THEN t.symbol \o ERR
                ELSE t.symbol \o format(Scaled(s.value, t.scale))
    /\ written' = TRUE
    /\ pc' = "pace"
    /\ UNCHANGED <<before, succeeded, connected, args, exitcode, brightness,
                   states, i, now, s, ns, cmdline, input, result>>

\* lines 146 and 127: the sleep returns and the cycle moves to the next index
Pace ==
    /\ pc = "pace"
    /\ i' = (i + 1) % N
    /\ before' = None
    /\ pc' = "select"
    /\ UNCHANGED <<succeeded, connected, args, exitcode, brightness, states,
                   now, s, ns, cmdline, label, written, input, result>>

Next == DeviceAbsent \/ Setup \/ Select \/ GetValueReturns \/ GetValueRaises
        \/ Render \/ Pace

Spec == Init /\ [][Next]_vars

(***************************************************************************)
(* format and Target.of applied on their own: the argument is drawn from   *)
(* a bounded domain, the call is one step, the rest of the state is idle.  *)
(***************************************************************************)
Idle ==
    /\ connected = FALSE
    /\ args = ParseArgs(<<Arg1>>, DefaultUpdateInterval, DefaultErrorThreashold, None)
    /\ exitcode = None
    /\ brightness = FALSE
    /\ states = <<>>
    /\ i = 0
    /\ now = 0
    /\ s = None
    /\ ns = None
    /\ cmdline = None
    /\ label = <<>>
    /\ written = FALSE
    /\ before = None
    /\ succeeded = {}

\* the values, in hundredths, at which the rendering of format changes
\* shape, and the values the documentation quotes
FormatCentres == {0, 1000, 10000, 100000, 1000000, 1234, 100, 12345600, 9999900}

FormatDomain ==
    UNION {((c - FormatWindow)..(c + FormatWindow))
             \cup ((0 - c - FormatWindow)..(FormatWindow - c)) : c \in FormatCentres}

InitFormat ==
    /\ pc = "call format"
    /\ input \in FormatDomain
    /\ result = None
    /\ Idle

ApplyFormat ==
    /\ pc = "call format"
    /\ result' = format(input)
    /\ pc' = "format returned"
    /\ UNCHANGED <<before, succeeded, connected, args, exitcode, brightness,
                   states, i, now, s, ns, cmdline, label, written, input>>

NextFormat == ApplyFormat

SpecFormat == InitFormat /\ [][NextFormat]_vars

ArgAlphabet == {"a", ",", "1", "."}

ArgStrings == UNION {[1..n -> ArgAlphabet] : n \in 0..MaxArgLen}

InitTarget ==
    /\ pc = "call Target.of"
    /\ input \in ArgStrings
    /\ result = None
    /\ Idle

ApplyTargetOf ==
    /\ pc = "call Target.of"
    /\ result' = TargetOf(input)
    /\ pc' = "Target.of returned"
    /\ UNCHANGED <<before, succeeded, connected, args, exitcode, brightness,
                   states, i, now, s, ns, cmdline, label, written, input>>

NextTarget == ApplyTargetOf

SpecTarget == InitTarget /\ [][NextTarget]_vars

(***************************************************************************)
(* get_value applied on its own: the reply of the collaborator and the     *)
(* --daemon setting are drawn, the call is one step.                       *)
(***************************************************************************)
FetchCommandLines ==
    {ParseArgs(<<Arg1>>, DefaultUpdateInterval, DefaultErrorThreashold, c) :
        c \in {None, Path(<<"s">>)}}

InitFetch ==
    /\ pc = "call get_value"
    /\ input \in Replies
    /\ result = None
    /\ args \in FetchCommandLines
    /\ connected = FALSE
    /\ exitcode = None
    /\ brightness = FALSE
    /\ states = <<>>
    /\ i = 0
    /\ now = 0
    /\ s = None
    /\ ns = None
    /\ cmdline = None
    /\ label = <<>>
    /\ written = FALSE
    /\ before = None
    /\ succeeded = {}

ApplyGetValue ==
    /\ pc = "call get_value"
    /\ cmdline' = Cmdline(targets[1], args.rrdcache)
    /\ result' = get_value(input)
    /\ pc' = "get_value returned"
    /\ UNCHANGED <<before, succeeded, connected, args, exitcode, brightness,
                   states, i, now, s, ns, label, written, input>>

NextFetch == ApplyGetValue

SpecFetch == InitFetch /\ [][NextFetch]_vars

(***************************************************************************)
(* The loop under fair scheduling: the process keeps running, every        *)
(* subprocess completes and every sleep returns.                           *)
(***************************************************************************)
FairSpec ==
    /\ Spec
    /\ WF_vars(DeviceAbsent) /\ WF_vars(Setup) /\ WF_vars(Select)
    /\ WF_vars(GetValueReturns \/ GetValueRaises)
    /\ WF_vars(Render) /\ WF_vars(Pace)

(***************************************************************************)
(* The loop together with format applied on its own.                       *)
(***************************************************************************)
InitLabel == Init \/ InitFormat

NextLabel == Next \/ NextFormat

SpecLabel == InitLabel /\ [][NextLabel]_vars

(***************************************************************************)
(* Properties                                                              *)
(***************************************************************************)
\* the age of a Reading against the clock sample of the cycle
Age(st) == now - st.at

\* the label of a value
ValueLabel(st) == t.symbol \o format(Scaled(st.value, t.scale))

ErrLabel == t.symbol \o ERR

\* the current cycle called get_value and it returned None
FetchFailed == pc \in {"classify", "pace"} /\ cmdline # None /\ ns = None

\* C1: in a cycle in which a refresh is due and get_value returns None, no
\* step of the cycle changes the stored Reading of the target (nor any other
\* slot): the returning step and the render and pace steps after it leave
\* states as it was, so a Reading is never reset to None.
FetchFailureKeepsReading ==
    [][((pc = "get_value" /\ pc' = "classify" /\ ns' = None) \/ FetchFailed)
         => /\ states' = states
            /\ s' = s
            /\ s' = states'[i + 1]]_vars

FetchFailureKeepsReadingWitness ==
    /\ FetchFailed
    /\ states[i + 1] # None
    /\ states[i + 1] = s

\* C2: whatever the collaborator replies, get_value returns None or a Reading
\* and never raises, so the loop never reaches a crashed state.
FetchNeverRaises == pc # "crashed"

\* C3: the step that starts a cycle invokes the fetcher exactly when the slot
\* is empty or the Reading is older than update_interval against the clock
\* sample of that cycle; with update_interval = 300 an age of 301 fetches and
\* ages of 299 and 300 do not; no other step invokes the fetcher.
RefreshIffDue ==
    [][/\ pc = "select" =>
            LET st == states[i + 1]
                due == st = None \/ now' - st.at > args.update_interval
            IN /\ (pc' = "get_value") <=> due
               /\ (cmdline' # None) <=> due
               /\ st # None /\ args.update_interval = 300 /\ now' - st.at = 301
                    => pc' = "get_value"
               /\ st # None /\ args.update_interval = 300 /\ now' - st.at \in {299, 300}
                    => pc' = "classify"
       /\ pc # "select" => cmdline' = cmdline /\ pc' # "get_value"]_vars

RefreshIffDueWitness ==
    /\ pc = "get_value"
    /\ s # None
    /\ args.update_interval = 300
    /\ Age(s) = 301

\* C4: the label handed to the display is symbol + " ERR " exactly when,
\* after the refresh step, the slot is empty or the Reading is older than
\* error_threashold; otherwise it is symbol + format(value * scale).  With
\* error_threashold = 1800 and no successful refresh an age of 1801 renders
\* ERR and ages of 1799 and 1800 render the value.
LabelIffError ==
    pc = "pace" =>
        LET st == states[i + 1]
            err == st = None \/ Age(st) > args.error_threashold
        IN /\ (label = ErrLabel) <=> err
           /\ ~err => label = ValueLabel(st)
           /\ st # None /\ args.error_threashold = 1800 /\ Age(st) = 1801
                => label = ErrLabel
           /\ st # None /\ args.error_threashold = 1800 /\ Age(st) \in {1799, 1800}
                => label = ValueLabel(st) /\ label # ErrLabel

LabelIffErrorWitness ==
    /\ pc = "pace"
    /\ states[i + 1] # None
    /\ ns = None
    /\ args.error_threashold = 1800
    /\ Age(states[i + 1]) = 1801
    /\ label = ErrLabel

\* C5: the first cycle is for index 0, the cycle after index i is for index
\* (i + 1) mod N whatever the cycle fetched and rendered, and, as long as
\* every subprocess completes and every sleep returns, every target is
\* rendered infinitely often.
CyclicForever ==
    /\ [][/\ pc = "start" /\ pc' = "select" => i' = 0
          /\ pc = "pace" => pc' = "select" /\ i' = (i + 1) % N
          /\ pc \notin {"start", "pace"} => i' = i]_vars
    /\ \A j \in 0..2 : []<>(~connected \/ j >= N \/ (pc = "pace" /\ i = j))

\* C6: format returns exactly 5 characters for every value, and every label
\* handed to the display has exactly 6: the one-character symbol of the
\* target followed by a 5-character token.
LabelWidth ==
    /\ pc = "format returned" => Len(result) = 5
    /\ pc = "pace" => /\ Len(label) = 6
                      /\ Len(t.symbol) = 1
                      /\ SubSeq(label, 1, 1) = t.symbol

LabelWidthWitness ==
    /\ pc = "pace"
    /\ label = t.symbol \o High

\* the acceptance rule of a rendering
Fits(r) == Len(r) <= 5 /\ r[1] \in {" ", "-"}

\* C7: format returns the one-decimal rendering when it fits, otherwise the
\* integer rendering when it fits, otherwise " High" for a value > 0 and
\* " Low " for a value <= 0; format(12.34) = " 12.3", format(-1) = " -1.0",
\* format(123456) = " High", format(-99999) = " Low "; the result is " High"
\* exactly for values >= 10000 and " Low " exactly for values <= -10000.
ThreeTierFormat ==
    pc = "format returned" =>
        /\ result = IF Fits(FormatF(input)) THEN FormatF(input)
                    ELSE IF Fits(FormatD(input)) THEN FormatD(input)
                    ELSE IF input > 0 THEN High ELSE Low
        /\ input = 1234 => result = <<" ", "1", "2", ".", "3">>
        /\ input = -100 => result = <<" ", "-", "1", ".", "0">>
        /\ input = 12345600 => result = High
        /\ input = -9999900 => result = Low
        /\ (result = High) <=> (input >= 1000000)
        /\ (result = Low) <=> (input <= -1000000)

ThreeTierFormatWitness ==
    /\ pc = "format returned"
    /\ input = 1000000
    /\ result = High

\* the fields of a string split on every comma
Fields(txt) == Split(txt, ",", Len(txt))

\* C8: Target.of succeeds exactly on the strings that split on commas into 2
\* fields, or into 3 fields of which the third is numeric, and whose first
\* field is one character long; the scale is 1.0 with 2 fields and the
\* parsed number with 3; every other string raises and yields no Target.
TargetGrammar ==
    pc = "Target.of returned" =>
        LET f == Fields(input)
            ok == /\ Len(f) = 2 \/ (Len(f) = 3 /\ FloatOk(f[3]))
                  /\ Len(f[1]) = 1
        IN /\ (result.kind = "Target") <=> ok
           /\ ok => result.symbol = f[1] /\ result.file = Path(f[2])
           /\ ok /\ Len(f) = 2 => result.scale = 100
           /\ ok /\ Len(f) = 3 => result.scale = FloatValue(f[3])
           /\ ~ok => result = Raise("ValueError")

TargetGrammarWitness ==
    /\ pc = "Target.of returned"
    /\ Len(Fields(input)) = 3
    /\ result.kind = "Target"
    /\ result.scale # 100

\* C9: with the device absent the process exits with status 1 before the
\* loop: no fetch, no brightness, nothing on the display; with the device
\* present the process has no terminal state.
OnlyDeviceAbsentTerminates ==
    /\ ~connected => /\ pc \in {"start", "exit"}
                     /\ pc = "exit" => exitcode = 1
                     /\ cmdline = None /\ ~brightness /\ ~written
    /\ connected => pc \notin {"exit", "crashed"} /\ exitcode = None

\* C10: a cycle that starts with a Reading older than update_interval and
\* not older than error_threashold, and whose fetch returns None, renders
\* the value of the retained Reading; ERR for a target that has a Reading
\* appears only when the Reading is older than error_threashold.
StaleBeforeError ==
    pc = "pace" =>
        /\ FetchFailed /\ s # None
             /\ args.update_interval < Age(s) /\ Age(s) <= args.error_threashold
             => label = ValueLabel(s) /\ label # ErrLabel
        /\ label = ErrLabel /\ states[i + 1] # None
             => Age(states[i + 1]) > args.error_threashold

StaleBeforeErrorWitness ==
    /\ pc = "pace"
    /\ FetchFailed
    /\ s # None
    /\ args.update_interval < Age(s)
    /\ Age(s) <= args.error_threashold
    /\ label = ValueLabel(s)

\* C11: the error state of a cycle is decided from the Reading the slot holds
\* after the refresh of that cycle and from nothing earlier: a cycle whose
\* fetch returned a Reading not older than error_threashold renders the
\* formatted value of that new Reading, and a cycle whose fetch returned a
\* Reading older than error_threashold renders ERR although the fetch
\* succeeded.
ErrorNotLatched ==
    pc = "pace" /\ cmdline # None /\ ns # None =>
        /\ Age(ns) <= args.error_threashold
             => label = ValueLabel(ns) /\ label # ErrLabel
        /\ Age(ns) > args.error_threashold => label = ErrLabel

\* the slot held a Reading in error when the cycle began, the fetch brought a
\* fresh one and the cycle rendered its value
ErrorNotLatchedWitness ==
    /\ pc = "pace"
    /\ cmdline # None
    /\ before # None
    /\ Age(before) > args.error_threashold
    /\ ns # None
    /\ Age(ns) <= args.error_threashold
    /\ label = ValueLabel(ns)

\* C12: every cycle takes its steps in the order select, refresh if due,
\* classify and render, pace: the fetcher is invoked at most once, only by
\* the step that starts the cycle, and it returns before anything is
\* rendered; the cycle renders exactly one label, ERR or the value; the pace
\* step follows the render and the next target is selected only after it.
CycleStepOrder ==
    [][/\ pc = "select" => pc' \in {"get_value", "classify"} /\ label' = <<>>
       /\ pc' = "get_value" => pc = "select"
       /\ pc = "get_value" => pc' = "classify" /\ label' = <<>>
       /\ pc = "classify" =>
            /\ pc' = "pace"
            /\ label = <<>>
            /\ \/ label' = ErrLabel
               \/ s # None /\ label' = ValueLabel(s) /\ label' # ErrLabel
       /\ pc = "pace" => pc' = "select" /\ label' = label /\ label # <<>>]_vars

\* C13: the cycle of target i invokes the fetcher for the file of target i
\* only and reads and writes slot i only: whatever the fetch returns, every
\* other slot is left as it was; the list of targets, and with it the number
\* of slots, never changes once the command line is parsed.
TargetsIndependent ==
    [][/\ args' = args
       /\ pc \in {"select", "get_value", "classify", "pace"} =>
            /\ Len(states') = N
            /\ \A j \in 1..N : j # i + 1 => states'[j] = states[j]
            /\ cmdline' # None => cmdline'.file = targets[i + 1].file
            /\ pc = "select" => s' = states[i + 1]
            /\ pc = "get_value" /\ pc' = "classify" => states'[i + 1] = s']_vars

\* the second target has fetched its own Reading next to a different one of
\* the first target
TargetsIndependentWitness ==
    /\ pc = "pace"
    /\ i = 1
    /\ cmdline # None
    /\ cmdline.file = targets[2].file
    /\ cmdline.file # targets[1].file
    /\ ns # None
    /\ states[2] = ns
    /\ states[1] # None
    /\ states[1] # states[2]

\* C14: a fetch that returns a Reading replaces the stored Reading of the
\* target as a whole: afterwards the slot holds exactly the State get_value
\* built from the reply, its timestamp the sample timestamp the source
\* reported and not the time of the fetch, its value the reported value, no
\* field kept from the previous Reading; this also happens when the fetched
\* timestamp is older than the one stored before.
WholesaleReplace ==
    pc \in {"classify", "pace"} /\ cmdline # None /\ ns # None =>
        /\ ns \in GetValueResults
        /\ ns.kind = "State"
        /\ states[i + 1] = ns
        /\ s = ns

\* a Reading stamped 1 has been replaced by one stamped 0, long after both
WholesaleReplaceWitness ==
    /\ pc = "classify"
    /\ cmdline # None
    /\ before # None
    /\ ns # None
    /\ ns.at < before.at
    /\ ns.value # before.value
    /\ ns.at # now
    /\ states[i + 1] = ns

\* the value, in hundredths, of each value the source prints
PrintedValues ==
    {<<<<"1", "2", ".", "3", "4">>, 1234>>,
     <<<<"-", "1", "2", "3", ".", "4">>, 0 - 12340>>,
     <<<<"1", "2", "3", "4", "5", "6">>, 12345600>>,
     <<<<"-", "9", "9", "9", "9", "9">>, 0 - 9999900>>}

\* C15: get_value maps the reply of the collaborator as follows: a non-zero
\* exit gives None whatever was printed; on a zero exit only the last line
\* of the output counts; a last line "t:U" gives None, a last line "t:v"
\* with integer t and numeric v gives State(t, v), a last line without ":"
\* gives None.  The --daemon setting goes into the command line only and
\* has no part in the mapping.
FetchMapping ==
    pc = "get_value returned" =>
        LET rc == input.returncode
            lines == SplitLines(input.stdout)
            final == lines[Len(lines)]
        IN /\ cmdline = [file |-> targets[1].file, daemon |-> args.rrdcache]
           /\ rc # 0 => result = None
           /\ rc = 0 /\ lines # <<>> =>
                /\ result = get_value(Completed(0, final \o <<"\n">>))
                /\ ~Contains(final, ":") => result = None
                /\ \A k \in 0..MaxSampleTime :
                     /\ final = Decimal(k) \o <<":", "U">> => result = None
                     /\ \A pv \in PrintedValues :
                          final = Decimal(k) \o <<":">> \o pv[1]
                            => result = State(k, pv[2])

\* a reply of several lines that ends in "1:12.34" has given State(1, 12.34)
\* with a cache daemon configured
FetchMappingWitness ==
    /\ pc = "get_value returned"
    /\ args.rrdcache # None
    /\ input.returncode = 0
    /\ input.stdout = Header \o <<"1", ":", "1", "2", ".", "3", "4", "\n">>
    /\ result = State(1, 1234)

\* the current cycle rendered ERR for a target that has a Reading and did
\* not invoke the fetcher
ErrWithoutFetch ==
    /\ pc = "pace"
    /\ cmdline = None
    /\ states[i + 1] # None
    /\ label = ErrLabel

\* C16 as stated: the thresholds are accepted as given, and whenever
\* error_threashold <= update_interval, with < as well as with =, there is an
\* age at which a Reading the slot holds is in error without being due for a
\* refresh, so that a cycle renders ERR although it attempted no fetch.
MisconfiguredErrWithoutFetch ==
    pc = "select" /\ states[i + 1] # None
      /\ args.error_threashold <= args.update_interval
      => \E n \in Times : /\ InError(states[i + 1], n)
                          /\ ~NeedsRefresh(states[i + 1], n)

\* C16: the thresholds are accepted as given; a cycle that renders ERR for a
\* target holding a Reading without having attempted a fetch occurs under
\* error_threashold < update_interval and under no other setting: with
\* error_threashold = update_interval both tests compare the same age with
\* the same bound.
ErrWithoutFetchOnlyBelow ==
    ErrWithoutFetch => args.error_threashold < args.update_interval

ErrWithoutFetchOnlyBelowWitness ==
    /\ ErrWithoutFetch
    /\ args.error_threashold < args.update_interval
    /\ args.error_threashold < Age(states[i + 1])
    /\ Age(states[i + 1]) <= args.update_interval

\* C17: get_value blocks the loop: while the subprocess is running nothing
\* of the current cycle has been rendered and no render, pace or select step
\* can be taken; the only steps are those by which the subprocess ends, so
\* if it never ends no target is rendered again.
FetchBlocks ==
    pc = "get_value" =>
        /\ label = <<>>
        /\ cmdline # None
        /\ ~ENABLED Render
        /\ ~ENABLED Pace
        /\ ~ENABLED Select
        /\ ~ENABLED (Setup \/ DeviceAbsent)
        /\ ENABLED (GetValueReturns \/ GetValueRaises)

\* a fetch is outstanding for the second target while the display shows what
\* an earlier cycle wrote
FetchBlocksWitness ==
    /\ pc = "get_value"
    /\ written
    /\ i = 1
    /\ s # None

\* C18: with error_threashold >= update_interval every cycle that renders
\* ERR has invoked the fetcher, and the fetcher returned None or a Reading
\* older than error_threashold; and a cycle that starts with its slot in
\* error always invokes the fetcher, however many cycles did so before.
ErrImpliesRetry ==
    /\ [](pc = "pace" /\ args.error_threashold >= args.update_interval
            /\ label = ErrLabel
            => /\ cmdline # None
               /\ ns = None \/ Age(ns) > args.error_threashold)
    /\ [][pc = "select" /\ args.error_threashold >= args.update_interval
            /\ InError(states[i + 1], now')
            => pc' = "get_value" /\ cmdline' # None]_vars

\* with both thresholds equal, a Reading the slot held went into error and
\* the fetch of that cycle returned None
ErrImpliesRetryWitness ==
    /\ pc = "pace"
    /\ args.error_threashold = args.update_interval
    /\ label = ErrLabel
    /\ cmdline # None
    /\ before # None
    /\ ns = None
    /\ written

\* C19: the slot of a target is empty exactly as long as no fetch for that
\* target has returned a Reading: all slots start empty, a slot is filled
\* only by the successful fetch of the cycle of its own target, and a filled
\* slot is never emptied; a cycle that finds its slot empty always invokes
\* the fetcher and, when the fetch brings no Reading, goes on to render ERR.
EmptyIffNeverFetched ==
    /\ [](/\ pc = "start" => succeeded = {}
          /\ pc \in {"select", "get_value", "classify", "pace", "crashed"} =>
               /\ Len(states) = N
               /\ \A j \in 0..(N - 1) : states[j + 1] = None <=> j \notin succeeded
          /\ pc \in {"get_value", "classify", "pace"} /\ before = None
               => cmdline # None
          /\ pc = "pace" /\ before = None /\ states[i + 1] = None
               => label = ErrLabel)
    /\ [][/\ pc = "start" /\ pc' = "select" =>
               \A j \in 1..Len(states') : states'[j] = None
          /\ pc \in {"select", "get_value", "classify", "pace"} =>
               \A j \in 1..N :
                  /\ states[j] # None => states'[j] # None
                  /\ states[j] = None /\ states'[j] # None
                       => j = i + 1 /\ pc = "get_value" /\ states'[j] = ns'
          /\ pc = "get_value" /\ before = None /\ states'[i + 1] = None
               => pc' = "classify"]_vars

====
